---- MODULE Spec2Model ----
(***************************************************************************)
(* Model of the drone-portainer plugin (src/src/index.ts, the program that *)
(* starts at line 228): one run of the async main function against a      *)
(* Portainer API.  Every await on an HTTP call is a point where the run    *)
(* waits for a response; the code between two awaits runs to completion   *)
(* (single JavaScript thread), so it is one action.  The responses         *)
(* (status and body) are chosen by the environment.                        *)
(*                                                                         *)
(* Strings the program takes apart or builds (branch, commit hash, tags)   *)
(* are sequences of one-character strings; an image name is the sequence   *)
(* of its "/"-separated segments; an environment variable is a record     *)
(* [set, val] (set = FALSE is JavaScript's undefined).                     *)
(***************************************************************************)
EXTENDS Integers, Sequences, FiniteSets, TLC

VARIABLES
    env,          \* process.env and the compose file on disk, read at load
    pc,           \* the await the main function is suspended at
    exitCode,     \* -1 while running, then the exit status of the process
    response,     \* status of the response held by `let response`
    bearerToken,  \* the Authorization default header
    localEp,      \* the endpoint found by name
    registries,   \* the module-level cache of the registry list
    swarmId,
    task,         \* one record per image pull (or per resolver call)
    trace         \* requests issued and responses handled, in order

vars == <<env, pc, exitCode, response, bearerToken, localEp, registries,
          swarmId, task, trace>>

\* ------------------------------------------------------------------ bounds
MaxImages == 2
MaxPayloadImages == 1
MaxCalls == 3

\* --------------------------------------------------------------- JS values
Unset == [set |-> FALSE, val |-> ""]
UnsetSeq == [set |-> FALSE, val |-> <<>>]
Str(s) == [set |-> TRUE, val |-> s]

\* !v for a value that is undefined, false or a string
Not(v) == (~v.set) \/ v.val = ""
\* the same for a string kept as a sequence of characters
NotChars(v) == (~v.set) \/ v.val = <<>>

Min(a, b) == IF a < b THEN a ELSE b

\* s.substring(0, n)
Substring0(s, n) == SubSeq(s, 1, Min(n, Len(s)))

\* Array.prototype.find: index of the first element passing the test, 0 if none
FindIndex(list, Test(_)) ==
    IF \E i \in 1..Len(list) : Test(list[i])
    THEN CHOOSE i \in 1..Len(list) :
            Test(list[i]) /\ \A j \in 1..(i - 1) : ~Test(list[j])
    ELSE 0

\* ---------------------------------------------------- values of the inputs
main == <<"m", "a", "i", "n">>
dev == <<"d", "e", "v">>
dockerIo == "docker.io"

Branches == {main, dev}
CommitHashes ==
    { UnsetSeq,
      [set |-> TRUE, val |-> <<>>],
      [set |-> TRUE, val |-> <<"0", "1", "2", "3", "4", "5", "6", "7", "8", "9">>] }
FlagValues == { Unset, Str(""), Str("false"), Str("true") }

ImageNames ==
    { <<"docker.io", "app:latest">>,
      <<"registry.example.com", "team", "svc:latest">> }

RECURSIVE SeqsUpTo(_, _)
SeqsUpTo(S, n) ==
    IF n = 0 THEN { <<>> }
    ELSE LET shorter == SeqsUpTo(S, n - 1)
         IN  shorter \cup { Append(s, x) : s \in shorter, x \in S }

ImageLists == SeqsUpTo(ImageNames, MaxImages)

\* PLUGIN_COMPOSE_ENVIRONMENT: the members of the JSON object, in text order
AB == << <<"A", "1">>, <<"B", "2">> >>
ComposeEnvSources ==
    { <<>>,
      AB,
      << <<"B", "2">>, <<"2", "x">>, <<"1", "y">>, <<"STACK_NAME", "z">> >> }

\* ------------------------------------------------ bodies of the responses
Tokens == { "jwt1", "jwt2" }
SwarmIds == { "swarm-a", "swarm-b" }
Statuses == { 200, 201, 500 }

EndpointLists ==
    { <<>>,
      << [Id |-> 2, Name |-> "other"], [Id |-> 3, Name |-> "local"],
         [Id |-> 4, Name |-> "local"] >> }

RegistryLists ==
    { << [Id |-> 5, URL |-> "registry.example"] >>,
      << [Id |-> 6, URL |-> "registry.example"],
         [Id |-> 7, URL |-> "registry.example.com"],
         [Id |-> 8, URL |-> "registry.example.com"],
         [Id |-> 9, URL |-> "ghcr.io"] >> }

StackLists ==
    { <<>>,
      << [Id |-> 3, Name |-> "api"] >>,
      << [Id |-> 3, Name |-> "api"], [Id |-> 7, Name |-> "web"],
         [Id |-> 9, Name |-> "web"] >> }

\* a response body that is a JSON object, not an array (an error document)
ErrorBody == [isArray |-> FALSE, items |-> <<>>]
ArrayBody(list) == [isArray |-> TRUE, items |-> list]

\* ------------------------------------------------------- module constants
branchName == env.DRONE_BRANCH
commitHash == env.DRONE_COMMIT_SHA
images == env.PLUGIN_IMAGES
stackName == env.PLUGIN_STACK_NAME
endpoint == env.PLUGIN_ENDPOINT
composeEnvStr == env.PLUGIN_COMPOSE_ENVIRONMENT
\* process.env.X ?? false: undefined becomes false, a string stays a string
standalone == env.PLUGIN_STANDALONE
forcePull == env.PLUGIN_FORCE_PULL

\* property names that are array indices, ascending
ArrayIndexKeys == <<"1", "2">>
IsArrayIndex(k) == \E i \in 1..Len(ArrayIndexKeys) : ArrayIndexKeys[i] = k

\* JSON.parse of an object: one property per distinct name, at the position of
\* its first member, holding the value of its last member
RECURSIVE JsonParse(_)
JsonParse(src) ==
    IF src = <<>> THEN <<>>
    ELSE LET n == Len(src)
             before == JsonParse(SubSeq(src, 1, n - 1))
             last == src[n]
         IN  IF \E i \in 1..Len(before) : before[i][1] = last[1]
             THEN [i \in 1..Len(before) |->
                     IF before[i][1] = last[1] THEN last ELSE before[i]]
             ELSE Append(before, last)

\* variant: all names as inserted
ObjectKeysAsInserted(obj) == [i \in 1..Len(obj) |-> obj[i][1]]

\* Object.keys order: array-index names ascending, then the others as inserted
ObjectKeys(obj) ==
    LET Has(k) == \E i \in 1..Len(obj) : obj[i][1] = k
        Named(p) == ~IsArrayIndex(p[1])
        others == SelectSeq(obj, Named)
    IN  SelectSeq(ArrayIndexKeys, Has) \o [i \in 1..Len(others) |-> others[i][1]]

ObjectGet(obj, k) == obj[CHOOSE i \in 1..Len(obj) : obj[i][1] = k][2]

additionalComposeEnv ==
    IF composeEnvStr.set /\ composeEnvStr.val # <<>>
    THEN JsonParse(composeEnvStr.val)
    ELSE <<>>

\* ------------------------------------------------- values the run derives
\* variant: the branch and the commit hash joined without a separator
releaseTagNoDash == branchName \o Substring0(commitHash.val, 8)

releaseTag == branchName \o <<"-">> \o Substring0(commitHash.val, 8)

\* variant: the prefix of every branch, main included
urlPrefixAnyBranch == branchName \o <<".">>

urlPrefix == IF branchName = main THEN <<>> ELSE branchName \o <<".">>

composeEnvArray ==
    LET keys == ObjectKeys(additionalComposeEnv)
    IN  << [name |-> "RELEASE_TAG", value |-> releaseTag],
           [name |-> "URL_PREFIX", value |-> urlPrefix],
           [name |-> "STACK_NAME", value |-> stackName] >>
        \o [i \in 1..Len(keys) |->
              [name |-> keys[i], value |-> ObjectGet(additionalComposeEnv, keys[i])]]

\* variant: the last segment instead of the first
RegistryOfLast(imageName) == imageName[Len(imageName)]

\* imageName.split("/")[0]
RegistryOf(imageName) == imageName[1]

\* Buffer.from(JSON.stringify({registryId})).toString("base64")
XRegistryAuthStr(id) == [base64 |-> [json |-> [registryId |-> id]]]

NoHeader == [set |-> FALSE, val |-> [base64 |-> [json |-> [registryId |-> 0]]]]

\* variant: the default header is never given to a request
AuthorizationMissing == [set |-> FALSE, val |-> ""]

\* axios.defaults.headers.common["Authorization"] at the time of a request
Authorization == bearerToken

\* ------------------------------------------------------ requests, responses
AuthReq ==
    [ev |-> "req", kind |-> "auth", task |-> 0, authorization |-> Authorization]
EndpointsReq(token) ==
    [ev |-> "req", kind |-> "endpoints", task |-> 0, authorization |-> token]
RegistriesReq(i) ==
    [ev |-> "req", kind |-> "registries", task |-> i, authorization |-> Authorization]
PullReq(i, ep, header) ==
    [ev |-> "req", kind |-> "pull", task |-> i, authorization |-> Authorization,
     endpointId |-> ep.Id, xRegistryAuth |-> header,
     fromImage |-> images[i], tag |-> releaseTag]
SwarmReq(ep) ==
    [ev |-> "req", kind |-> "swarm", task |-> 0, authorization |-> Authorization,
     endpointId |-> ep.Id]
StacksReq(stackOptions) ==
    [ev |-> "req", kind |-> "stacks", task |-> 0, authorization |-> Authorization,
     filters |-> stackOptions]
Resp(kind, i, status, data) ==
    [ev |-> "resp", kind |-> kind, task |-> i, status |-> status, data |-> data]

NoFilter == [set |-> FALSE, val |-> ""]
\* variant: the stack list is not filtered
SwarmFilterDropped(id) == [set |-> FALSE, val |-> ""]
SwarmFilter(id) == [set |-> TRUE, val |-> id]

\* variant: prune only when a pull is forced
PruneWhenForced == ~Not(forcePull)

\* Prune: true, in the create and in the update body
Prune == TRUE

\* variant: true whenever the variable is defined
PullImageIfDefined == forcePull.set

\* PullImage: !!forcePull
PullImage == ~Not(forcePull)

\* variant: operationType stays at its initial value
operationTypeInitial == 2

\* let operationType = 2, set to 1 when not standalone
operationType == IF Not(standalone) THEN 1 ELSE 2

\* the create branch: stackCreateOptions and the POST
CreateReq ==
    LET stackCreateOptions ==
            [Name |-> stackName,
             StackFileContent |-> env.composeFile.text,
             Env |-> composeEnvArray,
             Prune |-> Prune]
        swarmOptions == [SwarmID |-> swarmId]
    IN  [ev |-> "req", kind |-> "create", task |-> 0,
         authorization |-> Authorization,
         type |-> operationType,
         method |-> "string",
         endpointId |-> localEp.Id,
         body |-> IF Not(standalone)
                  THEN stackCreateOptions @@ swarmOptions
                  ELSE stackCreateOptions]

\* the update branch
UpdateReq(stackToUpdate) ==
    [ev |-> "req", kind |-> "update", task |-> 0,
     authorization |-> Authorization,
     stackId |-> stackToUpdate.Id,
     endpointId |-> localEp.Id,
     body |-> [id |-> stackToUpdate.Id,
               StackFileContent |-> env.composeFile.text,
               Env |-> composeEnvArray,
               Prune |-> Prune,
               PullImage |-> PullImage]]

\* ------------------------------------------------------------ termination
\* process.exit(1)
Exit(tr) ==
    /\ pc' = "exited"
    /\ exitCode' = 1
    /\ trace' = tr

\* an exception leaves the async main function: the promise is rejected and
\* unhandled; the runtime either ends the process with status 1 or only warns
\* and ends with status 0 once nothing is pending
Throw(tr) ==
    /\ pc' = "crashed"
    /\ exitCode' \in {0, 1}
    /\ trace' = tr

\* --------------------------------------------------------- status checks
AuthFailed(status) == status # 200
\* the endpoints check reads `response`, which holds the /auth response
EndpointsFailed(status) == response # 200
RegistriesFailed(status) == status # 200
\* variant: the pull status is not checked
PullNeverFailed(status) == FALSE
PullFailed(status) == status # 200
SwarmFailed(status) == status # 200
StacksFailed(status) == status # 200
StackWriteFailed(status) == status # 200

\* ----------------------------------------------------- registry resolution
\* variant: the cache is never consulted
GetRegistriesCallUncached(i, tr) ==
    [st |-> "awaitRegistries", list |-> <<>>,
     trace |-> Append(tr, RegistriesReq(i))]

\* getRegistries up to its await: the cached list, or a request
GetRegistriesCall(i, tr) ==
    IF registries.set
    THEN [st |-> "awaitCached", list |-> registries.val, trace |-> tr]
    ELSE [st |-> "awaitRegistries", list |-> <<>>,
          trace |-> Append(tr, RegistriesReq(i))]

\* variant: the last registry of that URL instead of the first
RegistryFromListLast(currentRegistries, registryUrl) ==
    IF \E j \in 1..Len(currentRegistries) : currentRegistries[j].URL = registryUrl
    THEN CHOOSE j \in 1..Len(currentRegistries) :
            currentRegistries[j].URL = registryUrl
            /\ \A m \in (j + 1)..Len(currentRegistries) :
                   currentRegistries[m].URL # registryUrl
    ELSE 0

\* getRegistryAuth after getRegistries returned: the index of the registry
RegistryFromList(currentRegistries, registryUrl) ==
    LET Matches(reg) == reg.URL = registryUrl
    IN  FindIndex(currentRegistries, Matches)

\* ------------------------------------------------------------- image pulls
\* one image's task from its start to its first await
StartPull(i, ep, st) ==
    LET registry == RegistryOf(images[i])
    IN  IF registry # dockerIo
        THEN LET r == GetRegistriesCall(i, st.trace)
             IN  [task |-> Append(st.task,
                              [st |-> r.st, registryUrl |-> registry,
                               list |-> r.list, header |-> NoHeader]),
                  trace |-> r.trace]
        ELSE [task |-> Append(st.task,
                          [st |-> "awaitPull", registryUrl |-> registry,
                           list |-> <<>>, header |-> NoHeader]),
              trace |-> Append(st.trace, PullReq(i, ep, NoHeader))]

\* variant: only the first image gets a task
LaunchFirstOnly(i, ep, st) ==
    IF i > Len(images) THEN st
    ELSE StartPull(i, ep, st)

\* images.split(",").map(...): every task runs to its first await, in order
RECURSIVE LaunchFrom(_, _, _)
LaunchFrom(i, ep, st) ==
    IF i > Len(images) THEN st
    ELSE LaunchFrom(i + 1, ep, StartPull(i, ep, st))

\* ------------------------------------------------------------ main function
NoEndpoint == [Id |-> 0, Name |-> ""]

\* the state when the main function is called, for the environments of E
InitWith(E) ==
    /\ env \in E
    /\ pc = "start"
    /\ exitCode = -1
    /\ response = 0
    /\ bearerToken = Unset
    /\ localEp = NoEndpoint
    /\ registries = [set |-> FALSE, val |-> <<>>]
    /\ swarmId = ""
    /\ task = <<>>
    /\ trace = <<>>

ReadableFile == [readable |-> TRUE, text |-> "services: {}"]
MissingFile == [readable |-> FALSE, text |-> ""]

\* environments that vary what decides the sequence of requests
FlowEnvs ==
    [DRONE_BRANCH : {dev},
     DRONE_COMMIT_SHA : CommitHashes,
     PLUGIN_IMAGES : ImageLists,
     PLUGIN_STACK_NAME : {"web"},
     PLUGIN_ENDPOINT : {"local"},
     PLUGIN_COMPOSE_ENVIRONMENT : {[set |-> TRUE, val |-> AB]},
     PLUGIN_STANDALONE : {Unset, Str("true")},
     PLUGIN_FORCE_PULL : {Unset},
     composeFile : {ReadableFile, MissingFile}]

\* environments that vary what decides the content of the stack requests
PayloadEnvs ==
    [DRONE_BRANCH : Branches,
     DRONE_COMMIT_SHA : CommitHashes,
     PLUGIN_IMAGES : SeqsUpTo(ImageNames, MaxPayloadImages),
     PLUGIN_STACK_NAME : {"web"},
     PLUGIN_ENDPOINT : {"local"},
     PLUGIN_COMPOSE_ENVIRONMENT :
         {[set |-> FALSE, val |-> <<>>]}
         \cup {[set |-> TRUE, val |-> src] : src \in ComposeEnvSources},
     PLUGIN_STANDALONE : FlagValues,
     PLUGIN_FORCE_PULL : FlagValues,
     composeFile : {ReadableFile}]

Init == InitWith(FlowEnvs)

InitPayload == InitWith(PayloadEnvs)

\* the commit hash check, the release tag, and POST /auth
Start ==
    /\ pc = "start"
    /\ IF NotChars(commitHash)
       THEN Exit(trace)
       ELSE /\ pc' = "auth"
            /\ trace' = Append(trace, AuthReq)
            /\ UNCHANGED exitCode
    /\ UNCHANGED <<env, response, bearerToken, localEp, registries, swarmId, task>>

\* the code after the pulls up to the next await: the swarm request in
\* clustered mode, else the unfiltered stack list request
AfterPulls(ep, tr) ==
    IF Not(standalone)
    THEN /\ pc' = "swarm"
         /\ trace' = Append(tr, SwarmReq(ep))
    ELSE /\ pc' = "stacks"
         /\ trace' = Append(tr, StacksReq(NoFilter))

\* the /auth response: the status check, the bearer token, GET /endpoints
AuthResponse(status, jwt) ==
    /\ pc = "auth"
    /\ response' = status
    /\ LET tr == Append(trace, Resp("auth", 0, status, jwt))
       IN  IF AuthFailed(status)
           THEN Exit(tr) /\ UNCHANGED bearerToken
           ELSE /\ bearerToken' = Str(jwt)
                /\ pc' = "endpoints"
                /\ trace' = Append(tr, EndpointsReq(Str(jwt)))
                /\ UNCHANGED exitCode
    /\ UNCHANGED <<env, localEp, registries, swarmId, task>>

\* variant: the pull stage is entered whatever the image list
HasImagesAlways == TRUE

\* images && images != ""
HasImages == images # <<>>

\* the /endpoints response: the status check, the endpoint lookup, and the
\* start of every image pull (or, with no images, the code after the pulls)
EndpointsResponse(status, body) ==
    /\ pc = "endpoints"
    /\ LET tr == Append(trace, Resp("endpoints", 0, status, body))
           Named(ep) == ep.Name = endpoint
           idx == FindIndex(body.items, Named)
       IN  IF EndpointsFailed(status)
           THEN Exit(tr) /\ UNCHANGED <<localEp, task>>
           ELSE IF ~body.isArray
           THEN Throw(tr) /\ UNCHANGED <<localEp, task>>
           ELSE IF idx = 0
           THEN Exit(tr) /\ UNCHANGED <<localEp, task>>
           ELSE /\ localEp' = body.items[idx]
                /\ UNCHANGED exitCode
                /\ IF HasImages
                   THEN LET st == LaunchFrom(1, body.items[idx],
                                             [task |-> <<>>, trace |-> tr])
                        IN  /\ pc' = "pulls"
                            /\ task' = st.task
                            /\ trace' = st.trace
                   ELSE AfterPulls(body.items[idx], tr) /\ UNCHANGED task
    /\ UNCHANGED <<env, response, bearerToken, registries, swarmId>>

\* a /registries response reaches the task of image i: getRegistries fills the
\* cache, getRegistryAuth looks the registry up, and the pull is requested
RegistriesResponse(i, status, list) ==
    /\ pc = "pulls"
    /\ i \in 1..Len(task)
    /\ task[i].st = "awaitRegistries"
    /\ LET tr == Append(trace, Resp("registries", i, status, list))
           idx == RegistryFromList(list, task[i].registryUrl)
           header == [set |-> TRUE, val |-> XRegistryAuthStr(list[idx].Id)]
       IN  IF RegistriesFailed(status)
           THEN Exit(tr) /\ UNCHANGED <<registries, task>>
           ELSE /\ registries' = [set |-> TRUE, val |-> list]
                /\ IF idx = 0
                   THEN Exit(tr) /\ UNCHANGED task
                   ELSE /\ task' = [task EXCEPT ![i].st = "awaitPull",
                                                ![i].header = header]
                        /\ trace' = Append(tr, PullReq(i, localEp, header))
                        /\ UNCHANGED <<pc, exitCode>>
    /\ UNCHANGED <<env, response, bearerToken, localEp, swarmId>>

\* variant: one finished pull is enough to go on
AnyPulled(t) == \E j \in 1..Len(t) : t[j].st = "done"

\* variant: the Promise.all of the pulls never resolves
AllPulledNever(t) == FALSE

AllPulled(t) == \A j \in 1..Len(t) : t[j].st = "done"

\* the response to the pull of image i; after the last one Promise.all
\* resolves and the main function goes on
PullResponse(i, status) ==
    /\ pc = "pulls"
    /\ i \in 1..Len(task)
    /\ task[i].st = "awaitPull"
    /\ LET tr == Append(trace, Resp("pull", i, status, ""))
           t == [task EXCEPT ![i].st = "done"]
       IN  IF PullFailed(status)
           THEN Exit(tr) /\ UNCHANGED task
           ELSE /\ task' = t
                /\ UNCHANGED exitCode
                /\ IF AllPulled(t)
                   THEN AfterPulls(localEp, tr)
                   ELSE trace' = tr /\ UNCHANGED pc
    /\ UNCHANGED <<env, response, bearerToken, localEp, registries, swarmId>>

\* the swarm response: the status check, the swarm id, the filtered stack list
SwarmResponse(status, id) ==
    /\ pc = "swarm"
    /\ LET tr == Append(trace, Resp("swarm", 0, status, id))
       IN  IF SwarmFailed(status)
           THEN Exit(tr) /\ UNCHANGED swarmId
           ELSE /\ swarmId' = id
                /\ pc' = "stacks"
                /\ trace' = Append(tr, StacksReq(SwarmFilter(id)))
                /\ UNCHANGED exitCode
    /\ UNCHANGED <<env, response, bearerToken, localEp, registries, task>>

\* variant: the lookup finds nothing
StackToUpdateNone(list) == 0

\* variant: the last stack of that name instead of the first
StackToUpdateLast(list) ==
    IF \E j \in 1..Len(list) : list[j].Name = stackName
    THEN CHOOSE j \in 1..Len(list) :
            list[j].Name = stackName
            /\ \A m \in (j + 1)..Len(list) : list[m].Name # stackName
    ELSE 0

\* the stack found by name: its index in the list, 0 if none
StackToUpdate(list) ==
    LET Named(stack) == stack.Name = stackName
    IN  FindIndex(list, Named)

\* variant: a file that cannot be read is taken as an empty one
ReadFileNeverThrows == FALSE

\* fs.readFileSync(dockerComposeFile) throws
ReadFileThrows == ~env.composeFile.readable

\* the /stacks response: the status check, the stack lookup, the compose file
\* read, and the create or the update request
StacksResponse(status, list) ==
    /\ pc = "stacks"
    /\ LET tr == Append(trace, Resp("stacks", 0, status, list))
           idx == StackToUpdate(list)
       IN  IF StacksFailed(status)
           THEN Exit(tr)
           ELSE IF ReadFileThrows
           THEN Exit(tr)
           ELSE IF idx = 0
           THEN /\ pc' = "create"
                /\ trace' = Append(tr, CreateReq)
                /\ UNCHANGED exitCode
           ELSE /\ pc' = "update"
                /\ trace' = Append(tr, UpdateReq(list[idx]))
                /\ UNCHANGED exitCode
    /\ UNCHANGED <<env, response, bearerToken, localEp, registries, swarmId, task>>

\* the response to the create or the update: the status check, then the end
StackResponse(status) ==
    /\ pc \in {"create", "update"}
    /\ LET tr == Append(trace, Resp(pc, 0, status, ""))
       IN  IF StackWriteFailed(status)
           THEN Exit(tr)
           ELSE /\ pc' = "done"
                /\ exitCode' = 0
                /\ trace' = tr
    /\ UNCHANGED <<env, response, bearerToken, localEp, registries, swarmId, task>>

Bodies == {ErrorBody} \cup {ArrayBody(l) : l \in EndpointLists}

Next ==
    \/ Start
    \/ \E status \in Statuses, jwt \in Tokens : AuthResponse(status, jwt)
    \/ \E status \in Statuses, body \in Bodies : EndpointsResponse(status, body)
    \/ \E i \in 1..MaxImages + 1, status \in Statuses, list \in RegistryLists :
          RegistriesResponse(i, status, list)
    \/ \E i \in 1..MaxImages + 1, status \in Statuses : PullResponse(i, status)
    \/ \E status \in Statuses, id \in SwarmIds : SwarmResponse(status, id)
    \/ \E status \in Statuses, list \in StackLists : StacksResponse(status, list)
    \/ \E status \in Statuses : StackResponse(status)

Spec == Init /\ [][Next]_vars

SpecPayload == InitPayload /\ [][Next]_vars

\* every request receives a response and its continuation runs
SpecLive == Init /\ [][Next]_vars /\ WF_vars(Next)

\* ------------------------------------------- the registry resolver by itself
\* getRegistryAuth called by a client that starts calls at any time, each for
\* one of ResolverHosts, after the session is set up
ResolverHosts == { "registry.example.com", "ghcr.io" }

ResolverEnv ==
    [DRONE_BRANCH |-> dev,
     DRONE_COMMIT_SHA |-> [set |-> TRUE, val |-> <<"0", "1", "2", "3", "4", "5", "6", "7", "8", "9">>],
     PLUGIN_IMAGES |-> <<>>,
     PLUGIN_STACK_NAME |-> "web",
     PLUGIN_ENDPOINT |-> "local",
     PLUGIN_COMPOSE_ENVIRONMENT |-> [set |-> FALSE, val |-> <<>>],
     PLUGIN_STANDALONE |-> Unset,
     PLUGIN_FORCE_PULL |-> Unset,
     composeFile |-> ReadableFile]

InitResolver ==
    /\ env = ResolverEnv
    /\ pc = "resolver"
    /\ exitCode = -1
    /\ response = 200
    /\ bearerToken = Str("jwt1")
    /\ localEp = NoEndpoint
    /\ registries = [set |-> FALSE, val |-> <<>>]
    /\ swarmId = ""
    /\ task = <<>>
    /\ trace = <<>>

CallEv(i, registryUrl) ==
    [ev |-> "call", kind |-> "getRegistryAuth", task |-> i, registryUrl |-> registryUrl]
ReturnEv(i, header) ==
    [ev |-> "return", kind |-> "getRegistryAuth", task |-> i, header |-> header]

\* a call of getRegistryAuth(registryUrl) up to the await in getRegistries
ResolveCall(registryUrl) ==
    /\ pc = "resolver"
    /\ Len(task) < MaxCalls
    /\ LET i == Len(task) + 1
           r == GetRegistriesCall(i, Append(trace, CallEv(i, registryUrl)))
       IN  /\ task' = Append(task, [st |-> r.st, registryUrl |-> registryUrl,
                                    list |-> r.list, header |-> NoHeader])
           /\ trace' = r.trace
    /\ UNCHANGED <<env, pc, exitCode, response, bearerToken, localEp,
                   registries, swarmId>>

\* getRegistryAuth from the list getRegistries returned to its return
ResolveFrom(i, currentRegistries, tr) ==
    LET idx == RegistryFromList(currentRegistries, task[i].registryUrl)
        header == [set |-> TRUE, val |-> XRegistryAuthStr(currentRegistries[idx].Id)]
    IN  IF idx = 0
        THEN Exit(tr) /\ UNCHANGED task
        ELSE /\ task' = [task EXCEPT ![i].st = "resolved", ![i].header = header]
             /\ trace' = Append(tr, ReturnEv(i, header))
             /\ UNCHANGED <<pc, exitCode>>

\* call i had found the cache filled: it goes on with the list it was given
ResolveCached(i) ==
    /\ pc = "resolver"
    /\ i \in 1..Len(task)
    /\ task[i].st = "awaitCached"
    /\ ResolveFrom(i, task[i].list, trace)
    /\ UNCHANGED <<env, response, bearerToken, localEp, registries, swarmId>>

\* the /registries response of call i: the status check, the cache, the lookup
ResolveFetched(i, status, list) ==
    /\ pc = "resolver"
    /\ i \in 1..Len(task)
    /\ task[i].st = "awaitRegistries"
    \* a call resumed from the cache is a microtask: it runs before any response
    /\ \A j \in 1..Len(task) : task[j].st # "awaitCached"
    /\ LET tr == Append(trace, Resp("registries", i, status, list))
       IN  IF RegistriesFailed(status)
           THEN Exit(tr) /\ UNCHANGED <<registries, task>>
           ELSE /\ registries' = [set |-> TRUE, val |-> list]
                /\ ResolveFrom(i, list, tr)
    /\ UNCHANGED <<env, response, bearerToken, localEp, swarmId>>

NextResolver ==
    \/ \E registryUrl \in ResolverHosts : ResolveCall(registryUrl)
    \/ \E i \in 1..MaxCalls + 1 : ResolveCached(i)
    \/ \E i \in 1..MaxCalls + 1, status \in Statuses, list \in RegistryLists :
          ResolveFetched(i, status, list)

SpecResolver == InitResolver /\ [][NextResolver]_vars

\* =================================================================== claims
Positions == DOMAIN trace
IsReq(k, kind) == trace[k].ev = "req" /\ trace[k].kind = kind
IsResp(k, kind) == trace[k].ev = "resp" /\ trace[k].kind = kind
ReqsOf(kinds) == { k \in Positions : trace[k].ev = "req" /\ trace[k].kind \in kinds }
HasName(list, name) == \E j \in 1..Len(list) : list[j].Name = name

\* C1: at most one stack-mutating request (create or update) per run; once the
\* stack list arrived with success and the compose file was read there is
\* exactly one, a create iff no entry of that list has the configured name
C1_OneCreateOrUpdate ==
    /\ Cardinality(ReqsOf({"create", "update"})) <= 1
    /\ \A k \in Positions :
          (IsResp(k, "stacks") /\ trace[k].status = 200 /\ env.composeFile.readable)
          => /\ Cardinality(ReqsOf({"create", "update"})) = 1
             /\ (ReqsOf({"create"}) # {})
                   <=> ~HasName(trace[k].data, env.PLUGIN_STACK_NAME)
             /\ (ReqsOf({"update"}) # {})
                   <=> HasName(trace[k].data, env.PLUGIN_STACK_NAME)
    /\ ReqsOf({"create", "update"}) # {}
          => \E k \in Positions : IsResp(k, "stacks") /\ trace[k].status = 200

C1_Witness ==
    /\ pc = "done"
    /\ ReqsOf({"update"}) # {}
    /\ \E k \in Positions : IsResp(k, "stacks") /\ Len(trace[k].data) > 1

\* the stages of a run, in order
StageOf(kind) ==
    CASE kind = "auth" -> 1
      [] kind = "endpoints" -> 2
      [] kind = "registries" -> 3
      [] kind = "pull" -> 4
      [] kind = "swarm" -> 5
      [] kind = "stacks" -> 6
      [] kind \in {"create", "update"} -> 7

\* C2: after a response with a failure status (here: 400 or more) no request
\* of a later stage is issued
C2_FailureHaltsLaterStages ==
    \A k \in Positions :
        (trace[k].ev = "resp" /\ trace[k].status >= 400)
        => \A m \in Positions :
              (m > k /\ trace[m].ev = "req")
              => StageOf(trace[m].kind) <= StageOf(trace[k].kind)

\* C3: stages are ordered: a pull or registry request comes after the
\* endpoints response, with the endpoint resolved; the swarm and the stack
\* list requests come after the pull response of every image; in clustered
\* mode the stack list request comes after the swarm response
C3_StagesOrdered ==
    /\ \A k \in ReqsOf({"pull", "registries"}) :
          /\ \E m \in 1..(k - 1) : IsResp(m, "endpoints")
          /\ localEp.Name = env.PLUGIN_ENDPOINT
    /\ \A k \in ReqsOf({"swarm", "stacks"}) :
          /\ \A i \in 1..Len(env.PLUGIN_IMAGES) :
                \E m \in 1..(k - 1) : IsResp(m, "pull") /\ trace[m].task = i
          /\ \A j \in ReqsOf({"pull"}) :
                \E m \in (j + 1)..(k - 1) :
                    IsResp(m, "pull") /\ trace[m].task = trace[j].task
    /\ \A k \in ReqsOf({"stacks"}) :
          (~env.PLUGIN_STANDALONE.set \/ env.PLUGIN_STANDALONE.val = "")
          => \E m \in 1..(k - 1) : IsResp(m, "swarm")

C3_Witness ==
    /\ ReqsOf({"stacks"}) # {}
    /\ ReqsOf({"swarm"}) # {}
    /\ Cardinality(ReqsOf({"pull"})) >= 2
    /\ ReqsOf({"registries"}) # {}

\* C4: when a pull response with a failure status is handled the run ends at
\* once with exit code 1, whatever is still in flight, and no swarm, stack
\* list, create or update request is ever issued
C4_FirstPullFailureEnds ==
    \A k \in Positions :
        (IsResp(k, "pull") /\ trace[k].status # 200)
        => /\ pc = "exited"
           /\ exitCode = 1
           /\ k = Len(trace)
           /\ ReqsOf({"swarm", "stacks", "create", "update"}) = {}

\* a pull failed while another image was still waiting for a response
C4_Witness ==
    /\ \E k \in Positions : IsResp(k, "pull") /\ trace[k].status # 200
    /\ \E j \in 1..Len(task) : task[j].st \in {"awaitPull", "awaitRegistries"}
    /\ \E j \in 1..Len(task) : task[j].st = "done"

\* C5: the registry list is requested at most once in a run
C5_OneRegistriesFetch ==
    Cardinality(ReqsOf({"registries"})) <= 1

\* C6: a call of the resolver started after another call returned issues no
\* registry request and answers from the list cached at that time; calls made
\* one after the other cause exactly one registry request in total
CachedAt(k) ==
    LET m == CHOOSE m \in 1..(k - 1) :
                /\ IsResp(m, "registries") /\ trace[m].status = 200
                /\ \A n \in (m + 1)..(k - 1) :
                      ~(IsResp(n, "registries") /\ trace[n].status = 200)
    IN  trace[m].data

FirstWithURL(list, url) ==
    CHOOSE j \in 1..Len(list) :
        list[j].URL = url /\ \A m \in 1..(j - 1) : list[m].URL # url

OneAfterTheOther ==
    \A k, m \in Positions :
        (trace[k].ev = "call" /\ trace[m].ev = "call" /\ k < m)
        => \E r \in (k + 1)..(m - 1) :
              trace[r].ev = "return" /\ trace[r].task = trace[k].task

C6_CacheHitAfterCompletion ==
    /\ \A k \in Positions :
          (trace[k].ev = "call" /\ \E m \in 1..(k - 1) : trace[m].ev = "return")
          => /\ \A r \in ReqsOf({"registries"}) : trace[r].task # trace[k].task
             /\ \A r \in Positions :
                   (trace[r].ev = "return" /\ trace[r].task = trace[k].task)
                   => LET list == CachedAt(k)
                          j == FirstWithURL(list, trace[k].registryUrl)
                      IN  trace[r].header = [set |-> TRUE,
                                             val |-> XRegistryAuthStr(list[j].Id)]
    /\ (OneAfterTheOther /\ trace # <<>>)
          => Cardinality(ReqsOf({"registries"})) = 1

\* two calls for the same host, the second after the first returned
C6_Witness ==
    /\ Len(task) = 2
    /\ task[1].st = "resolved" /\ task[2].st = "resolved"
    /\ task[1].registryUrl = task[2].registryUrl
    /\ OneAfterTheOther
    /\ Cardinality(ReqsOf({"registries"})) = 1

\* C7: an image of docker.io causes no registry lookup and its pull carries no
\* X-Registry-Auth header; an image of any other host causes a lookup and its
\* pull carries the header; a header on a pull is the credential resolved for
\* that image
C7_HeaderOnlyForPrivateRegistry ==
    /\ ReqsOf({"pull", "registries"}) # {} => Len(task) = Len(env.PLUGIN_IMAGES)
    /\ \A i \in 1..Len(task) :
          LET host == env.PLUGIN_IMAGES[i][1]
              lookups == { k \in ReqsOf({"registries"}) : trace[k].task = i }
              pulls == { k \in ReqsOf({"pull"}) : trace[k].task = i }
          IN  IF host = "docker.io"
              THEN /\ lookups = {}
                   /\ \A k \in pulls : ~trace[k].xRegistryAuth.set
              ELSE /\ lookups # {}
                   /\ \A k \in pulls : trace[k].xRegistryAuth.set
    /\ \A k \in ReqsOf({"pull"}) :
          trace[k].xRegistryAuth.set
          => \E m \in 1..(k - 1) :
                /\ IsResp(m, "registries")
                /\ trace[m].task = trace[k].task
                /\ trace[m].status = 200
                /\ \E j \in 1..Len(trace[m].data) :
                      /\ trace[m].data[j].URL = trace[k].fromImage[1]
                      /\ trace[k].xRegistryAuth.val
                            = XRegistryAuthStr(trace[m].data[j].Id)

C7_Witness ==
    /\ pc = "done"
    /\ \E k, m \in ReqsOf({"pull"}) :
          /\ trace[k].fromImage[1] = "docker.io"
          /\ ~trace[k].xRegistryAuth.set
          /\ trace[m].fromImage[1] = "registry.example.com"
          /\ trace[m].xRegistryAuth.set

\* C8: the credential of a pull encodes the Id of the first registry of the
\* fetched list whose URL equals the image's host; when no URL equals the host
\* the run ends with exit code 1 without a pull for that image and without a
\* stack list, create or update request
C8_ExactRegistryMatch ==
    \A k \in Positions :
        (IsResp(k, "registries") /\ trace[k].status = 200)
        => LET i == trace[k].task
               host == env.PLUGIN_IMAGES[i][1]
               list == trace[k].data
           IN  IF \E j \in 1..Len(list) : list[j].URL = host
               THEN /\ k < Len(trace)
                    /\ IsReq(k + 1, "pull")
                    /\ trace[k + 1].task = i
                    /\ trace[k + 1].xRegistryAuth
                          = [set |-> TRUE,
                             val |-> XRegistryAuthStr(list[FirstWithURL(list, host)].Id)]
               ELSE /\ pc = "exited"
                    /\ exitCode = 1
                    /\ \A m \in ReqsOf({"pull"}) : trace[m].task # i
                    /\ ReqsOf({"stacks", "create", "update"}) = {}

\* the host is the second of three registries, after one whose URL is a
\* prefix of it and before one with the same URL
C8_Witness ==
    \E k \in ReqsOf({"pull"}) :
        /\ trace[k].xRegistryAuth = [set |-> TRUE, val |-> XRegistryAuthStr(7)]
        /\ IsResp(k - 1, "registries")
        /\ Len(trace[k - 1].data) > 2

\* C9: with a stack of the configured name in the list the update goes to the
\* Id of the first such stack, in the path and in the body; with none the
\* create is issued and carries no stack Id
C9_UpdateFirstMatchElseCreate ==
    /\ \A k \in Positions :
          (IsResp(k, "stacks") /\ trace[k].status = 200 /\ k < Len(trace))
          => LET list == trace[k].data
                 r == trace[k + 1]
                 name == env.PLUGIN_STACK_NAME
             IN  IF HasName(list, name)
                 THEN /\ r.ev = "req" /\ r.kind = "update"
                      /\ \E j \in 1..Len(list) :
                            /\ list[j].Name = name
                            /\ \A m \in 1..(j - 1) : list[m].Name # name
                            /\ r.stackId = list[j].Id
                            /\ r.body.id = list[j].Id
                 ELSE /\ r.ev = "req" /\ r.kind = "create"
                      /\ "stackId" \notin DOMAIN r
                      /\ "id" \notin DOMAIN r.body
    /\ \A k \in ReqsOf({"create", "update"}) :
          k > 1 /\ IsResp(k - 1, "stacks") /\ trace[k - 1].status = 200

C9_Witness ==
    \E k \in ReqsOf({"update"}) :
        /\ trace[k].stackId = 7
        /\ \E j \in 1..Len(trace[k - 1].data) : trace[k - 1].data[j].Id = 9

\* C10: the create request has type 1 and the SwarmID of this run's swarm
\* response in clustered mode, type 2 and no SwarmID in standalone mode; in
\* both it has the stack name, the compose file text, the compose environment
\* and the Id of the resolved endpoint
Clustered == (~env.PLUGIN_STANDALONE.set) \/ env.PLUGIN_STANDALONE.val = ""

C10_CreateByMode ==
    \A k \in ReqsOf({"create"}) :
        LET r == trace[k]
        IN  /\ IF Clustered
               THEN /\ r.type = 1
                    /\ "SwarmID" \in DOMAIN r.body
                    /\ \E m \in 1..(k - 1) :
                          /\ IsResp(m, "swarm") /\ trace[m].status = 200
                          /\ r.body.SwarmID = trace[m].data
               ELSE /\ r.type = 2
                    /\ "SwarmID" \notin DOMAIN r.body
            /\ r.body.Name = env.PLUGIN_STACK_NAME
            /\ r.body.StackFileContent = env.composeFile.text
            /\ r.body.Env = composeEnvArray
            /\ Len(r.body.Env) >= 3
            /\ r.body.Env[1].name = "RELEASE_TAG"
            /\ r.body.Env[2].name = "URL_PREFIX"
            /\ r.body.Env[3].name = "STACK_NAME"
            /\ \E m \in 1..(k - 1) :
                  /\ IsResp(m, "endpoints")
                  /\ \E j \in 1..Len(trace[m].data.items) :
                        /\ trace[m].data.items[j].Name = env.PLUGIN_ENDPOINT
                        /\ \A n \in 1..(j - 1) :
                              trace[m].data.items[n].Name # env.PLUGIN_ENDPOINT
                        /\ r.endpointId = trace[m].data.items[j].Id

C10_Witness ==
    \E k \in ReqsOf({"create"}) :
        /\ Clustered
        /\ trace[k].body.SwarmID = "swarm-b"
        /\ env.PLUGIN_STANDALONE = Str("")

\* a flag of the environment is set: defined and not the empty string
IsSet(flag) == flag.set /\ flag.val # ""

\* C11: with the standalone flag set no swarm request is issued and the stack
\* list request has no filter; with the flag not set there is one swarm
\* request before the stack list request, a failure status of its response
\* ends the run with exit code 1, and the stack list request is filtered by
\* the ID of that response
C11_SwarmOnlyWhenClustered ==
    IF IsSet(env.PLUGIN_STANDALONE)
    THEN /\ ReqsOf({"swarm"}) = {}
         /\ \A k \in ReqsOf({"stacks"}) : ~trace[k].filters.set
    ELSE /\ Cardinality(ReqsOf({"swarm"})) <= 1
         /\ pc \in {"swarm", "stacks", "create", "update", "done"}
               => Cardinality(ReqsOf({"swarm"})) = 1
         /\ \A k \in Positions :
               (IsResp(k, "swarm") /\ trace[k].status # 200)
               => pc = "exited" /\ exitCode = 1 /\ k = Len(trace)
         /\ \A k \in ReqsOf({"stacks"}) :
               /\ k > 2
               /\ IsResp(k - 1, "swarm") /\ trace[k - 1].status = 200
               /\ \E m \in 1..(k - 2) : IsReq(m, "swarm")
               /\ trace[k].filters = [set |-> TRUE, val |-> trace[k - 1].data]

C11_Witness ==
    /\ env.PLUGIN_STANDALONE = Unset
    /\ \E k \in ReqsOf({"stacks"}) :
          trace[k].filters = [set |-> TRUE, val |-> "swarm-a"]

\* C12: PullImage of the update request is true when the force-pull flag is
\* set and false when it is not; the create request has no PullImage
C12_PullImageFollowsForcePull ==
    /\ \A k \in ReqsOf({"update"}) :
          trace[k].body.PullImage = IsSet(env.PLUGIN_FORCE_PULL)
    /\ \A k \in ReqsOf({"create"}) : "PullImage" \notin DOMAIN trace[k].body

C12_Witness ==
    /\ env.PLUGIN_FORCE_PULL = Str("true")
    /\ \E k \in ReqsOf({"update"}) : trace[k].body.PullImage

\* C13: every create and every update request carries Prune = true
C13_PruneAlwaysTrue ==
    \A k \in ReqsOf({"create", "update"}) :
        /\ "Prune" \in DOMAIN trace[k].body
        /\ trace[k].body.Prune = TRUE

C13_Witness ==
    /\ pc = "done"
    /\ ~IsSet(env.PLUGIN_FORCE_PULL)
    /\ \E k \in ReqsOf({"update"}) : trace[k].body.Prune

\* the members of the JSON text of PLUGIN_COMPOSE_ENVIRONMENT
EnvSource ==
    IF env.PLUGIN_COMPOSE_ENVIRONMENT.set
    THEN env.PLUGIN_COMPOSE_ENVIRONMENT.val
    ELSE <<>>

MandatoryNames == <<"RELEASE_TAG", "URL_PREFIX", "STACK_NAME">>

IndexNames == { "1", "2" }
IndexValue(name) == IF name = "1" THEN 1 ELSE 2

FirstAt(name) ==
    CHOOSE i \in 1..Len(EnvSource) :
        EnvSource[i][1] = name /\ \A j \in 1..(i - 1) : EnvSource[j][1] # name
LastAt(name) ==
    CHOOSE i \in 1..Len(EnvSource) :
        EnvSource[i][1] = name
        /\ \A j \in (i + 1)..Len(EnvSource) : EnvSource[j][1] # name

EveryStageSucceeded ==
    /\ ~NotChars(env.DRONE_COMMIT_SHA)
    /\ env.composeFile.readable
    /\ \A k \in Positions : trace[k].ev = "resp" => trace[k].status = 200
    /\ \E k \in Positions :
          trace[k].ev = "resp" /\ trace[k].kind \in {"create", "update"}

SomeStageFailed ==
    \/ NotChars(env.DRONE_COMMIT_SHA)
    \/ \E k \in Positions : trace[k].ev = "resp" /\ trace[k].status >= 400

\* C15: a run ends with exit code 0 or 1; with 0 when every stage succeeded,
\* with 1 when a stage failed (a run that an uncaught exception ends is only
\* required to end with 0 or 1)
C15_ExitCodeReflectsOutcome ==
    /\ pc \in {"done", "exited", "crashed"} => exitCode \in {0, 1}
    /\ pc \in {"done", "exited"} =>
          /\ EveryStageSucceeded => exitCode = 0
          /\ SomeStageFailed => exitCode = 1

\* C16: the first request of a run is the one auth request; after a failure
\* status of its response no other request exists; after a 200 every request
\* carries the token of that response, which stays the bearer token
C16_OneSessionToken ==
    /\ trace # <<>> => IsReq(1, "auth")
    /\ Cardinality(ReqsOf({"auth"})) <= 1
    /\ (pc # "start" /\ ~NotChars(env.DRONE_COMMIT_SHA))
          => Cardinality(ReqsOf({"auth"})) = 1
    /\ \A k \in Positions :
          (trace[k].ev = "req" /\ k > 1) => IsResp(2, "auth") /\ trace[2].status = 200
    /\ \A k \in Positions :
          (IsResp(k, "auth") /\ trace[k].status # 200)
          => /\ k = Len(trace)
             /\ pc = "exited"
             /\ ~bearerToken.set
    /\ \A k \in Positions :
          (IsResp(k, "auth") /\ trace[k].status = 200)
          => /\ bearerToken = [set |-> TRUE, val |-> trace[k].data]
             /\ \A m \in Positions :
                   (m > k /\ trace[m].ev = "req")
                   => trace[m].authorization = [set |-> TRUE, val |-> trace[k].data]

C16_Witness ==
    /\ pc = "done"
    /\ bearerToken = Str("jwt2")
    /\ Cardinality(ReqsOf({"pull"})) = 2
    /\ ReqsOf({"registries"}) # {}
    /\ ReqsOf({"swarm"}) # {}

\* C17: with an empty image list there is no pull request and no registries
\* request, the pull stage is never entered, and the event that follows the
\* endpoints response, when the run goes on, is the swarm request (clustered)
\* or the stack list request (standalone)
C17_NoImagesSkipsPulls ==
    env.PLUGIN_IMAGES = <<>> =>
        /\ ReqsOf({"pull", "registries"}) = {}
        /\ pc # "pulls"
        /\ task = <<>>
        /\ \A k \in Positions :
              IsResp(k, "endpoints") =>
                 /\ pc # "endpoints"
                 /\ k < Len(trace) =>
                       IF Clustered
                       THEN IsReq(k + 1, "swarm")
                       ELSE IsReq(k + 1, "stacks")
                 /\ k = Len(trace) => pc \in {"exited", "crashed"}

C17_Witness ==
    /\ env.PLUGIN_IMAGES = <<>>
    /\ pc = "done"
    /\ ReqsOf({"swarm"}) # {}
    /\ ReqsOf({"create", "update"}) # {}

FirstEight(hash) == [i \in 1..(IF Len(hash) < 8 THEN Len(hash) ELSE 8) |-> hash[i]]

ExpectedTag == env.DRONE_BRANCH \o <<"-">> \o FirstEight(env.DRONE_COMMIT_SHA.val)

\* C18: the tag of every pull request and the RELEASE_TAG value of every
\* create or update request is branch + "-" + the first 8 characters of the
\* commit hash; a run without commit hash, or with an empty one, ends with
\* exit code 1 and issues no request
C18_ReleaseTag ==
    /\ \A k \in ReqsOf({"pull"}) : trace[k].tag = ExpectedTag
    /\ \A k \in ReqsOf({"create", "update"}) :
          /\ trace[k].body.Env[1].name = "RELEASE_TAG"
          /\ trace[k].body.Env[1].value = ExpectedTag
          /\ \A j \in ReqsOf({"pull"}) : trace[j].tag = trace[k].body.Env[1].value
    /\ ((~env.DRONE_COMMIT_SHA.set) \/ env.DRONE_COMMIT_SHA.val = <<>>)
          => /\ trace = <<>>
             /\ pc \in {"start", "exited"}
             /\ pc = "exited" => exitCode = 1

C18_Witness ==
    /\ pc = "done"
    /\ \E k \in ReqsOf({"pull"}) :
          trace[k].tag = <<"d", "e", "v", "-", "0", "1", "2", "3", "4", "5", "6", "7">>
    /\ \E k \in ReqsOf({"create", "update"}) :
          trace[k].body.Env[1].value =
             <<"d", "e", "v", "-", "0", "1", "2", "3", "4", "5", "6", "7">>

\* C19: the URL_PREFIX value of every create or update request is the empty
\* string when the branch is "main", and branch + "." for any other branch
C19_UrlPrefix ==
    \A k \in ReqsOf({"create", "update"}) :
        /\ trace[k].body.Env[2].name = "URL_PREFIX"
        /\ trace[k].body.Env[2].value =
              IF env.DRONE_BRANCH = <<"m", "a", "i", "n">>
              THEN <<>>
              ELSE env.DRONE_BRANCH \o <<".">>

C19_Witness ==
    /\ pc = "done"
    /\ env.DRONE_BRANCH = <<"m", "a", "i", "n">>
    /\ \E k \in ReqsOf({"create", "update"}) : trace[k].body.Env[2].value = <<>>

RunEnded == pc \in {"done", "exited", "crashed"}

EveryResponseSucceeded ==
    \A k \in Positions : trace[k].ev = "resp" => trace[k].status = 200

\* the endpoints response lists an endpoint of the configured name
EndpointListed(k) ==
    /\ IsResp(k, "endpoints")
    /\ trace[k].data.isArray
    /\ HasName(trace[k].data.items, env.PLUGIN_ENDPOINT)

\* the Id of the first endpoint of the configured name in that response
ListedEndpointId(k) ==
    LET items == trace[k].data.items
        first == CHOOSE j \in 1..Len(items) :
                    /\ items[j].Name = env.PLUGIN_ENDPOINT
                    /\ \A m \in 1..(j - 1) : items[m].Name # env.PLUGIN_ENDPOINT
    IN  items[first].Id

\* one pull request per entry of the image list, for that entry, scoped to
\* the endpoint found in the endpoints response k, with the release tag
OnePullPerImage(k) ==
    /\ Cardinality(ReqsOf({"pull"})) = Len(env.PLUGIN_IMAGES)
    /\ \A i \in 1..Len(env.PLUGIN_IMAGES) :
          /\ Cardinality({ p \in ReqsOf({"pull"}) : trace[p].task = i }) = 1
          /\ \A p \in ReqsOf({"pull"}) :
                trace[p].task = i =>
                   /\ p > k
                   /\ trace[p].fromImage = env.PLUGIN_IMAGES[i]
                   /\ trace[p].endpointId = ListedEndpointId(k)
                   /\ trace[p].tag = ExpectedTag

\* every registries response lists the host of every image not on docker.io
EveryRegistryListed ==
    \A k \in Positions :
        IsResp(k, "registries") =>
           \A i \in 1..Len(env.PLUGIN_IMAGES) :
               env.PLUGIN_IMAGES[i][1] # "docker.io" =>
                  \E j \in 1..Len(trace[k].data) :
                      trace[k].data[j].URL = env.PLUGIN_IMAGES[i][1]

CacheWritten ==
    /\ Len(trace') > Len(trace)
    /\ trace'[Len(trace) + 1].ev = "resp"
    /\ trace'[Len(trace) + 1].kind = "registries"
    /\ trace'[Len(trace) + 1].status = 200

\* C21: once the registry cache holds a list no step writes it again and its
\* contents stay the same for the rest of the run
C21_CacheWrittenOnce ==
    [][registries.set => (~CacheWritten /\ registries' = registries)]_vars

\* C22: a create or update request directly follows the stack list response
\* and carries the text of the compose file; when the file cannot be read
\* there is no create or update request, and the run ends with exit code 1
\* at the stack list response of status 200
C22_ComposeFileReadBeforeWrite ==
    /\ \A k \in ReqsOf({"create", "update"}) :
          /\ env.composeFile.readable
          /\ trace[k].body.StackFileContent = env.composeFile.text
          /\ k > 1
          /\ IsResp(k - 1, "stacks")
    /\ ~env.composeFile.readable =>
          /\ ReqsOf({"create", "update"}) = {}
          /\ pc \notin {"create", "update", "done"}
          /\ \A k \in Positions :
                (IsResp(k, "stacks") /\ trace[k].status = 200)
                => /\ k = Len(trace)
                   /\ pc = "exited"
                   /\ exitCode = 1
    /\ \A k \in Positions :
          (IsResp(k, "stacks") /\ trace[k].status = 200 /\ env.composeFile.readable)
          => /\ k < Len(trace)
             /\ trace[k + 1].ev = "req"
             /\ trace[k + 1].kind \in {"create", "update"}

C22_Witness ==
    /\ ~env.composeFile.readable
    /\ pc = "exited"
    /\ exitCode = 1
    /\ trace # <<>>
    /\ IsResp(Len(trace), "stacks")
    /\ trace[Len(trace)].status = 200
    /\ Cardinality(ReqsOf({"pull"})) = 2
    /\ \A k \in Positions : trace[k].ev = "resp" => trace[k].status = 200

RespsOf(kinds) ==
    { k \in Positions : trace[k].ev = "resp" /\ trace[k].kind \in kinds }

\* the run ended with the success marker: exit code 0, after a 200 response
\* to every pull and to the one create or update request, which came last
EndedWithSuccess ==
    /\ pc = "done"
    /\ exitCode = 0
    /\ Cardinality(ReqsOf({"create", "update"})) = 1
    /\ Cardinality(RespsOf({"create", "update"})) = 1
    /\ IsResp(Len(trace), "create") \/ IsResp(Len(trace), "update")
    /\ Cardinality(RespsOf({"pull"})) = Len(env.PLUGIN_IMAGES)
    /\ \A p \in ReqsOf({"pull"}) :
          \E r \in RespsOf({"pull"}) :
              /\ trace[r].task = trace[p].task
              /\ p < r
              /\ \A w \in ReqsOf({"create", "update"}) : r < w

\* every response holds what the run looks up in it: the endpoints response
\* the configured endpoint, a registries response the host of every image
\* that is not on docker.io
EveryResponseUsable ==
    /\ \A k \in Positions : IsResp(k, "endpoints") => EndpointListed(k)
    /\ EveryRegistryListed

====
